---- MODULE Spec2Model ----
(***************************************************************************)
(* Dataset curation and retrain-trigger pipeline of                        *)
(* packages/solari-genai-kit/training/scripts: group_split_jsonl.py,       *)
(* split_jsonl.py, dedupe_jsonl.py, validate_jsonl.py, stats_report.py and *)
(* retrain_trigger.py.  Every script is a single-threaded batch process;   *)
(* one run of a script is a behaviour that starts with the parsed          *)
(* arguments and the input file and ends with pc = "done".                 *)
(*                                                                         *)
(* A file is a sequence of lines.  A line is blank, is text that is not    *)
(* JSON, or is the text of a JSON value.  JSON values are tagged records:  *)
(* objects keep their members in the order of the text (as Python dicts    *)
(* do), numbers and strings carry their text.                              *)
(***************************************************************************)
EXTENDS Integers, Sequences, FiniteSets, TLC

VARIABLES
    tool,        \* which script this process runs
    args,        \* argparse namespace of the run
    inp,         \* the lines of the input file (args.inp)
    pc,          \* position of the process in main()
    i,           \* number of input lines the read loop has consumed
    exit,        \* process outcome: "running", "0", "1", "config", "crash"
    report,      \* the counters printed at completion (<<>> before that)
    n,           \* group_split / stats: n
    groups,      \* group_split: groups, insertion-ordered <<[k, lines]>>
    keys,        \* group_split: keys
    train_keys,  \* group_split: train_keys
    val_keys,    \* group_split: val_keys
    test_keys,   \* group_split: test_keys
    lines,       \* split: lines
    files,       \* outdir: [train, val, test |-> lines written]
    seen,        \* dedupe: seen
    fout,        \* dedupe: lines written to args.out
    n_in,        \* dedupe / validate: n_in
    n_out,       \* dedupe: n_out
    n_ok,        \* validate: n_ok
    n_bad,       \* validate: n_bad
    bad_out,     \* validate: rows written to args.out_bad
    lengths,     \* stats: lengths
    n_missing_label, \* stats: n_missing_label
    label_counts,    \* stats: label_counts, insertion-ordered <<[k, c]>>
    need,        \* retrain_trigger: need
    fo           \* retrain_trigger: the harvest file, [path, lines]

vars == <<tool, args, inp, pc, i, exit, report, n, groups, keys, train_keys,
          val_keys, test_keys, lines, files, seen, fout, n_in, n_out, n_ok,
          n_bad, bad_out, lengths, n_missing_label, label_counts, need, fo>>

procVars == <<tool, args, inp, pc, i, exit, report>>
splitVars == <<n, groups, keys, train_keys, val_keys, test_keys, lines, files>>
dedupeVars == <<seen, fout, n_out>>
validateVars == <<n_ok, n_bad, bad_out>>
statsVars == <<lengths, n_missing_label, label_counts>>
retrainVars == <<need, fo>>

-----------------------------------------------------------------------------
(* Bounds of the model.                                                    *)

\* longest input file, in lines
MaxLines == 3
\* longest details list of an evaluation summary
MaxDetails == 2
\* a new retrain run starts only while the harvest file is shorter
MaxHarvest == 3

-----------------------------------------------------------------------------
(* JSON values and lines.                                                  *)

JNull == [t |-> "null"]
JTrue == [t |-> "true"]
JFalse == [t |-> "false"]
JStr(s) == [t |-> "str", s |-> s]
JNum(s) == [t |-> "num", s |-> s]
\* a number of an evaluation summary by value: a rate in hundredths
\* (0.95 is 95), a taxonomy count as it is
JNumV(v) == [t |-> "num", v |-> v]
JList(e) == [t |-> "list", e |-> e]
\* f is the sequence of members <<key, value>>, keys distinct
JObj(f) == [t |-> "obj", f |-> f]

Blank == [kind |-> "blank"]
\* a non-blank line on which json.loads raises
BadLine == [kind |-> "bad"]
JsonLine(v) == [kind |-> "json", v |-> v]

\* Python's None (also what json.loads gives for null)
None == JNull
\* an option that was not given on the command line (its default None);
\* a path option that was given is the tuple of its parts
NoArg == <<>>

Range(s) == {s[x] : x \in DOMAIN s}

\* isinstance(cur, dict) and part in cur
HasKey(cur, part) ==
    /\ cur.t = "obj"
    /\ \E x \in DOMAIN cur.f : cur.f[x][1] = part

\* cur[part]
Lookup(cur, part) ==
    LET x == CHOOSE y \in DOMAIN cur.f : cur.f[y][1] = part IN cur.f[x][2]

\* get_path(obj, path); path is args.group_key split at "."
RECURSIVE get_path(_, _)
get_path(obj, path) ==
    IF path = <<>> THEN obj
    ELSE IF HasKey(obj, Head(path)) THEN get_path(Lookup(obj, Head(path)), Tail(path))
    ELSE None

\* str(g) of a resolved group key or label: a string is itself, a number
\* its digits, a literal its Python name (the containers of the model that
\* reach str are empty)
Str(g) ==
    CASE g.t = "str" -> g.s
      [] g.t = "num" -> g.s
      [] g.t = "true" -> "True"
      [] g.t = "false" -> "False"
      [] g.t = "null" -> "None"
      [] g.t = "list" /\ g.e = <<>> -> "[]"
      [] g.t = "obj" /\ g.f = <<>> -> "{}"

-----------------------------------------------------------------------------
(* random.Random(seed).shuffle(xs): the permutation depends only on the    *)
(* seed and on len(xs); result[p] = xs[ShufflePerm(seed, len)[p]].  The    *)
(* table is CPython's Mersenne Twister shuffle for the seeds of the model. *)

ShufflePerm(seed, len) ==
    CASE len = 0 -> <<>>
      [] len = 1 -> <<1>>
      [] len = 2 /\ seed = 0 -> <<1, 2>>
      [] len = 3 /\ seed = 0 -> <<1, 3, 2>>
      [] len = 4 /\ seed = 0 -> <<3, 1, 2, 4>>
      [] len = 5 /\ seed = 0 -> <<3, 2, 1, 5, 4>>
      [] len = 2 /\ seed = 1 -> <<2, 1>>
      [] len = 3 /\ seed = 1 -> <<2, 3, 1>>
      [] len = 4 /\ seed = 1 -> <<4, 1, 3, 2>>
      [] len = 5 /\ seed = 1 -> <<3, 4, 5, 1, 2>>
      [] len = 2 /\ seed = 42 -> <<2, 1>>
      [] len = 3 /\ seed = 42 -> <<2, 1, 3>>
      [] len = 4 /\ seed = 42 -> <<3, 2, 4, 1>>
      [] len = 5 /\ seed = 42 -> <<4, 2, 3, 5, 1>>

Shuffle(xs, seed) ==
    LET perm == ShufflePerm(seed, Len(xs)) IN [p \in 1..Len(xs) |-> xs[perm[p]]]

\* xs[a:b] of Python for 0 <= a, b (0-based, end exclusive, clamped)
Min(a, b) == IF a < b THEN a ELSE b
Slice(xs, a, b) ==
    LET lo == Min(a, Len(xs))
        hi == Min(b, Len(xs))
    IN IF hi <= lo THEN <<>> ELSE SubSeq(xs, lo + 1, hi)

-----------------------------------------------------------------------------
(* Split fractions are tenths: args.train = train/10.  For the totals of   *)
(* the model int(total * (k/10)) in double arithmetic equals               *)
(* (total * k) \div 10.                                                    *)

FracDen == 10

\* int(total*args.train)
IntFrac(total, frac) == (total * frac) \div FracDen

\* abs((args.train+args.val+args.test)-1.0)>1e-9
BadFractions(a) == a.train + a.val + a.test # FracDen

-----------------------------------------------------------------------------
(* What every process starts from; a script leaves the variables of the    *)
(* other scripts at these values.                                          *)

SplitIdle ==
    /\ n = 0 /\ groups = <<>> /\ keys = <<>>
    /\ train_keys = <<>> /\ val_keys = <<>> /\ test_keys = <<>>
    /\ lines = <<>>
    /\ files = [train |-> <<>>, val |-> <<>>, test |-> <<>>]
DedupeIdle == seen = {} /\ fout = <<>> /\ n_out = 0
ValidateIdle == n_ok = 0 /\ n_bad = 0 /\ bad_out = <<>>
StatsIdle == lengths = <<>> /\ n_missing_label = 0 /\ label_counts = <<>>
RetrainIdle == need = <<>> /\ fo = [path |-> <<"", "">>, lines |-> <<>>]
ProcStart == pc = "start" /\ i = 0 /\ exit = "running" /\ report = <<>> /\ n_in = 0

\* files of at most MaxLines lines over the line universe U
FilesOver(U) == UNION {[1..len -> U] : len \in 0..MaxLines}

-----------------------------------------------------------------------------
(* group_split_jsonl.py and split_jsonl.py                                 *)

Seeds == {0, 1, 42}

\* (train, val, test) in tenths; the last two do not sum to 1
Fractions ==
    {<<9, 1, 0>>, <<5, 5, 0>>, <<8, 1, 1>>, <<3, 3, 4>>, <<0, 0, 10>>,
     <<5, 4, 0>>, <<6, 5, 0>>}

GroupKeyPath == <<"meta", "userId">>

\* {"meta": {"userId": g}, "x": x}
Rec(g, x) == JsonLine(JObj(<<<<"meta", JObj(<<<<"userId", g>>>>)>>, <<"x", JNum(x)>>>>))

SplitLines ==
    {Blank, BadLine,
     Rec(JStr("a"), "1"), Rec(JStr("a"), "2"), Rec(JStr("b"), "1"),
     Rec(JNum("1"), "1"), Rec(JStr("1"), "1"),
     JsonLine(JObj(<<<<"meta", JStr("a")>>>>)),
     JsonLine(JList(<<>>))}

InitSplit ==
    /\ tool \in {"group_split", "split"}
    /\ \E seed \in Seeds, fr \in Fractions :
          args = [seed |-> seed, train |-> fr[1], val |-> fr[2], test |-> fr[3],
                  group_key |-> GroupKeyPath]
    /\ inp \in FilesOver(SplitLines)
    /\ ProcStart
    /\ SplitIdle /\ DedupeIdle /\ ValidateIdle /\ StatsIdle /\ RetrainIdle

\* groups[k].append(line) on the defaultdict: a new key is inserted last
GroupAppend(gs, k, line) ==
    IF \E x \in DOMAIN gs : gs[x].k = k
    THEN [x \in DOMAIN gs |->
            IF gs[x].k = k THEN [gs[x] EXCEPT !.lines = Append(@, line)] ELSE gs[x]]
    ELSE Append(gs, [k |-> k, lines |-> <<line>>])

\* the group key of a parsed line: str(get_path(obj, group_key)), or the
\* sentinel when the path resolves to None
Missing == "__MISSING__"
GroupKeyOf(line, path) ==
    LET g == get_path(line.v, path) IN IF g = None THEN Missing ELSE Str(g)

\* one iteration of the read loop of group_split on st = [n, groups]
GSConsume(st, line, path) ==
    IF line.kind # "json" THEN st
    ELSE [n |-> st.n + 1, groups |-> GroupAppend(st.groups, GroupKeyOf(line, path), line)]

\* list(groups.keys())
GroupKeys(gs) == [x \in DOMAIN gs |-> gs[x].k]

\* groups[k]
GroupLines(gs, k) == (CHOOSE x \in Range(gs) : x.k = k).lines

\* flatten(klist)
RECURSIVE flatten(_, _)
flatten(gs, klist) ==
    IF klist = <<>> THEN <<>> ELSE GroupLines(gs, Head(klist)) \o flatten(gs, Tail(klist))

\* the three slices of the shuffled units
TrainCut(total, a) == IntFrac(total, a.train)
ValCut(total, a) == IntFrac(total, a.train) + IntFrac(total, a.val)
TrainSlice(xs, a) == Slice(xs, 0, TrainCut(Len(xs), a))
ValSlice(xs, a) == Slice(xs, TrainCut(Len(xs), a), ValCut(Len(xs), a))
\* the slip keys[n_train:] for keys[n_train+n_val:]
TestSliceMutant(xs, a) == Slice(xs, TrainCut(Len(xs), a), Len(xs))
TestSlice(xs, a) == Slice(xs, ValCut(Len(xs), a), Len(xs))

GSCheckArgs ==
    /\ tool = "group_split" /\ pc = "start"
    /\ IF BadFractions(args)
       THEN pc' = "done" /\ exit' = "config"
       ELSE pc' = "read" /\ exit' = exit
    /\ UNCHANGED <<tool, args, inp, i, report, n_in>>
    /\ UNCHANGED <<splitVars, dedupeVars, validateVars, statsVars, retrainVars>>

GSReadLine ==
    /\ tool = "group_split" /\ pc = "read" /\ i < Len(inp)
    /\ LET st == GSConsume([n |-> n, groups |-> groups], inp[i + 1], args.group_key)
       IN n' = st.n /\ groups' = st.groups
    /\ i' = i + 1
    /\ UNCHANGED <<tool, args, inp, pc, exit, report, n_in>>
    /\ UNCHANGED <<keys, train_keys, val_keys, test_keys, lines, files>>
    /\ UNCHANGED <<dedupeVars, validateVars, statsVars, retrainVars>>

GSShuffle ==
    /\ tool = "group_split" /\ pc = "read" /\ i = Len(inp)
    /\ keys' = Shuffle(GroupKeys(groups), args.seed)
    /\ pc' = "alloc"
    /\ UNCHANGED <<tool, args, inp, i, exit, report, n_in>>
    /\ UNCHANGED <<n, groups, train_keys, val_keys, test_keys, lines, files>>
    /\ UNCHANGED <<dedupeVars, validateVars, statsVars, retrainVars>>

GSAllocate ==
    /\ tool = "group_split" /\ pc = "alloc"
    /\ train_keys' = TrainSlice(keys, args)
    /\ val_keys' = ValSlice(keys, args)
    /\ test_keys' = TestSlice(keys, args)
    /\ pc' = "write"
    /\ UNCHANGED <<tool, args, inp, i, exit, report, n_in>>
    /\ UNCHANGED <<n, groups, keys, lines, files>>
    /\ UNCHANGED <<dedupeVars, validateVars, statsVars, retrainVars>>

GSWrite ==
    /\ tool = "group_split" /\ pc = "write"
    /\ files' = [train |-> flatten(groups, train_keys),
                 val |-> flatten(groups, val_keys),
                 test |-> flatten(groups, test_keys)]
    /\ report' = [rows |-> n, groups |-> Len(keys),
                  train_rows |-> Len(files'.train),
                  val_rows |-> Len(files'.val),
                  test_rows |-> Len(files'.test)]
    /\ pc' = "done" /\ exit' = "0"
    /\ UNCHANGED <<tool, args, inp, i, n_in>>
    /\ UNCHANGED <<n, groups, keys, train_keys, val_keys, test_keys, lines>>
    /\ UNCHANGED <<dedupeVars, validateVars, statsVars, retrainVars>>

\* [ln for ln in f if ln.strip()]
NonBlank(f) == SelectSeq(f, LAMBDA ln : ln.kind # "blank")

SCheckArgs ==
    /\ tool = "split" /\ pc = "start"
    /\ IF BadFractions(args)
       THEN pc' = "done" /\ exit' = "config"
       ELSE pc' = "read" /\ exit' = exit
    /\ UNCHANGED <<tool, args, inp, i, report, n_in>>
    /\ UNCHANGED <<splitVars, dedupeVars, validateVars, statsVars, retrainVars>>

SReadShuffle ==
    /\ tool = "split" /\ pc = "read"
    /\ lines' = Shuffle(NonBlank(inp), args.seed)
    /\ i' = Len(inp)
    /\ pc' = "alloc"
    /\ UNCHANGED <<tool, args, inp, exit, report, n_in>>
    /\ UNCHANGED <<n, groups, keys, train_keys, val_keys, test_keys, files>>
    /\ UNCHANGED <<dedupeVars, validateVars, statsVars, retrainVars>>

SWrite ==
    /\ tool = "split" /\ pc = "alloc"
    /\ n' = Len(lines)
    /\ files' = [train |-> TrainSlice(lines, args),
                 val |-> ValSlice(lines, args),
                 test |-> TestSlice(lines, args)]
    /\ report' = [n |-> Len(lines),
                  train |-> Len(files'.train),
                  val |-> Len(files'.val),
                  test |-> Len(files'.test)]
    /\ pc' = "done" /\ exit' = "0"
    /\ UNCHANGED <<tool, args, inp, i, n_in>>
    /\ UNCHANGED <<groups, keys, train_keys, val_keys, test_keys, lines>>
    /\ UNCHANGED <<dedupeVars, validateVars, statsVars, retrainVars>>

NextSplit ==
    \/ GSCheckArgs
    \/ GSReadLine
    \/ GSShuffle
    \/ GSAllocate
    \/ GSWrite
    \/ SCheckArgs
    \/ SReadShuffle
    \/ SWrite

SpecSplit == InitSplit /\ [][NextSplit]_vars

\* the read loop of group_split over a whole file
RECURSIVE GSReadAll(_, _, _)
GSReadAll(st, f, path) ==
    IF f = <<>> THEN st ELSE GSReadAll(GSConsume(st, Head(f), path), Tail(f), path)

\* main() of group_split as a function of the input file and the arguments:
\* the key lists of the three partitions
GSRun(f, a) ==
    LET st == GSReadAll([n |-> 0, groups |-> <<>>], f, a.group_key)
        ks == Shuffle(GroupKeys(st.groups), a.seed)
    IN [train |-> TrainSlice(ks, a), val |-> ValSlice(ks, a), test |-> TestSlice(ks, a)]

-----------------------------------------------------------------------------
(* Claims on the splitters (checked under SpecSplit).                      *)

GSDone == tool = "group_split" /\ pc = "done" /\ exit = "0"
SDone == tool = "split" /\ pc = "done" /\ exit = "0"

\* the group keys whose lines a file holds
KeysOf(f) == {GroupKeyOf(f[x], GroupKeyPath) : x \in {y \in DOMAIN f : f[y].kind = "json"}}

\* C1: when group_split completes, the sets of group keys whose lines are
\* in train, val and test are pairwise disjoint and their union is the set
\* of group keys of the parseable input lines (an unresolved key path is
\* the group "__MISSING__").  Fractions are taken in [0, 1].
C1_GroupsDisjointExhaustive ==
    GSDone =>
        /\ KeysOf(files.train) \cap KeysOf(files.val) = {}
        /\ KeysOf(files.train) \cap KeysOf(files.test) = {}
        /\ KeysOf(files.val) \cap KeysOf(files.test) = {}
        /\ KeysOf(files.train) \cup KeysOf(files.val) \cup KeysOf(files.test) = KeysOf(inp)

\* a completed run with three groups, one of them the sentinel group, and
\* lines in all three partitions
C1_Witness ==
    /\ GSDone
    /\ Cardinality(KeysOf(inp)) = 3
    /\ Missing \in KeysOf(inp)
    /\ files.train # <<>> /\ files.val # <<>> /\ files.test # <<>>

\* C2: with N units in shuffled order (groups for group_split, non-blank
\* lines for split) train is the first floor(N*train) units, val the units
\* from floor(N*train) up to floor(N*(train+val)), test all the rest.
C2_CutPoints ==
    /\ GSDone =>
          LET N == Len(keys) IN
          /\ train_keys = Slice(keys, 0, IntFrac(N, args.train))
          /\ val_keys = Slice(keys, IntFrac(N, args.train), IntFrac(N, args.train + args.val))
          /\ test_keys = Slice(keys, IntFrac(N, args.train + args.val), N)
    /\ SDone =>
          LET N == Len(lines) IN
          /\ files.train = Slice(lines, 0, IntFrac(N, args.train))
          /\ files.val = Slice(lines, IntFrac(N, args.train), IntFrac(N, args.train + args.val))
          /\ files.test = Slice(lines, IntFrac(N, args.train + args.val), N)

\* the files with the lines of f in another order
Reorderings(f) ==
    {[x \in DOMAIN f |-> f[p[x]]] :
        p \in {q \in [DOMAIN f -> DOMAIN f] : \A x, y \in DOMAIN f : q[x] = q[y] => x = y}}

\* C3: the partition of every group is a function of the groups, the seed
\* and the fractions: a run on the same lines in any other order, with the
\* same seed and fractions, puts every group in the same partition.
C3_OrderIndependent ==
    GSDone =>
        \A f \in Reorderings(inp) :
            /\ Range(GSRun(f, args).train) = Range(train_keys)
            /\ Range(GSRun(f, args).val) = Range(val_keys)
            /\ Range(GSRun(f, args).test) = Range(test_keys)

-----------------------------------------------------------------------------
(* json.loads and json.dumps on the values of the model.  The text of a    *)
(* line may repeat a key of an object (the last value wins, at the place   *)
(* of the first) and may write a float with trailing zeros.                *)

\* d[k] = v on a dict d (a sequence of members)
DictSet(d, k, v) ==
    IF \E x \in DOMAIN d : d[x][1] = k
    THEN [x \in DOMAIN d |-> IF d[x][1] = k THEN <<k, v>> ELSE d[x]]
    ELSE Append(d, <<k, v>>)

\* repr(float(s)) for the number texts of the model
NumText(s) == CASE s = "1.50" -> "1.5" [] OTHER -> s

RECURSIVE loads(_)
RECURSIVE LoadMembers(_, _)
LoadMembers(d, f) ==
    IF f = <<>> THEN d
    ELSE LoadMembers(DictSet(d, Head(f)[1], loads(Head(f)[2])), Tail(f))
loads(v) ==
    CASE v.t = "obj" -> JObj(LoadMembers(<<>>, v.f))
      [] v.t = "list" -> JList([x \in DOMAIN v.e |-> loads(v.e[x])])
      [] v.t = "num" -> JNum(NumText(v.s))
      [] OTHER -> v

\* json.dumps(obj, ensure_ascii=False): the text of a parsed value, members
\* in dict order
dumps(obj) == obj

\* the keys of the model in string order
KeyAlphabet == <<"a", "b", "m", "x", "y">>

\* json.dumps(obj, sort_keys=True): members in key order, at every depth
RECURSIVE SortKeys(_)
RECURSIVE SortedMembers(_, _)
SortedMembers(f, ks) ==
    IF ks = <<>> THEN <<>>
    ELSE IF \E x \in DOMAIN f : f[x][1] = Head(ks)
         THEN <<<<Head(ks), SortKeys(Lookup(JObj(f), Head(ks)))>>>> \o SortedMembers(f, Tail(ks))
         ELSE SortedMembers(f, Tail(ks))
SortKeys(obj) ==
    CASE obj.t = "obj" -> JObj(SortedMembers(obj.f, KeyAlphabet))
      [] obj.t = "list" -> JList([x \in DOMAIN obj.e |-> SortKeys(obj.e[x])])
      [] OTHER -> obj

\* h(obj): the SHA-256 of the sorted text, taken as the sorted text itself
\* (digests collide only on equal texts)
hMutant(obj) == dumps(obj)
h(obj) == SortKeys(obj)

-----------------------------------------------------------------------------
(* dedupe_jsonl.py                                                         *)

Obj1(k, v) == JsonLine(JObj(<<<<k, v>>>>))
Obj2(k1, v1, k2, v2) == JsonLine(JObj(<<<<k1, v1>>, <<k2, v2>>>>))

DedupeLines ==
    {Blank, BadLine,
     Obj2("a", JNum("1"), "b", JNum("2")), Obj2("b", JNum("2"), "a", JNum("1")),
     Obj1("a", JNum("1.50")), Obj1("a", JNum("1.5")),
     Obj2("a", JNum("1"), "a", JNum("2")), Obj1("a", JNum("2")),
     Obj1("m", JObj(<<<<"x", JNum("1")>>, <<"y", JStr("s")>>>>)),
     Obj1("m", JObj(<<<<"y", JStr("s")>>, <<"x", JNum("1")>>>>)),
     JsonLine(JNum("1"))}

InitDedupe ==
    /\ tool = "dedupe"
    /\ args = [out |-> "out.jsonl"]
    /\ inp \in FilesOver(DedupeLines)
    /\ ProcStart
    /\ SplitIdle /\ DedupeIdle /\ ValidateIdle /\ StatsIdle /\ RetrainIdle

\* one iteration of the loop of dedupe on st = [seen, fout, n_in, n_out]
DDConsume(st, line) ==
    IF line.kind = "blank" THEN st
    ELSE IF line.kind = "bad" THEN [st EXCEPT !.n_in = @ + 1]
    ELSE LET obj == loads(line.v)
             key == h(obj)
         IN IF key \in st.seen THEN [st EXCEPT !.n_in = @ + 1]
            ELSE [seen |-> st.seen \cup {key},
                  fout |-> Append(st.fout, JsonLine(dumps(obj))),
                  n_in |-> st.n_in + 1,
                  n_out |-> st.n_out + 1]

DDReadLine ==
    /\ tool = "dedupe" /\ pc = "start" /\ i < Len(inp)
    /\ LET st == DDConsume([seen |-> seen, fout |-> fout, n_in |-> n_in, n_out |-> n_out],
                           inp[i + 1])
       IN seen' = st.seen /\ fout' = st.fout /\ n_in' = st.n_in /\ n_out' = st.n_out
    /\ i' = i + 1
    /\ UNCHANGED <<tool, args, inp, pc, exit, report>>
    /\ UNCHANGED <<splitVars, validateVars, statsVars, retrainVars>>

DDFinish ==
    /\ tool = "dedupe" /\ pc = "start" /\ i = Len(inp)
    /\ report' = [in |-> n_in, out |-> n_out]
    /\ pc' = "done" /\ exit' = "0"
    /\ UNCHANGED <<tool, args, inp, i, n_in>>
    /\ UNCHANGED <<splitVars, dedupeVars, validateVars, statsVars, retrainVars>>

NextDedupe ==
    \/ DDReadLine
    \/ DDFinish

SpecDedupe == InitDedupe /\ [][NextDedupe]_vars

\* main() of dedupe as a function of the input file: the output file
RECURSIVE DDReadAll(_, _)
DDReadAll(st, f) == IF f = <<>> THEN st ELSE DDReadAll(DDConsume(st, Head(f)), Tail(f))
DedupeRun(f) == DDReadAll([seen |-> {}, fout |-> <<>>, n_in |-> 0, n_out |-> 0], f).fout

-----------------------------------------------------------------------------
(* Claims on dedupe (checked under SpecDedupe).                            *)

DDDone == tool = "dedupe" /\ pc = "done"

\* a record up to the order of object keys: an object is the set of its
\* members
RECURSIVE Unordered(_)
Unordered(obj) ==
    CASE obj.t = "obj" ->
           [t |-> "obj", f |-> {<<obj.f[x][1], Unordered(obj.f[x][2])>> : x \in DOMAIN obj.f}]
      [] obj.t = "list" -> JList([x \in DOMAIN obj.e |-> Unordered(obj.e[x])])
      [] OTHER -> obj

\* the records of the parseable lines of a file, in file order
Records(f) ==
    LET js == SelectSeq(f, LAMBDA ln : ln.kind = "json") IN [x \in DOMAIN js |-> loads(js[x].v)]

\* the records of rs that equal no earlier record of rs up to key order
FirstOccurrences(rs) ==
    LET RECURSIVE Keep(_)
        Keep(x) ==
            IF x > Len(rs) THEN <<>>
            ELSE IF \E y \in 1..(x - 1) : Unordered(rs[y]) = Unordered(rs[x]) THEN Keep(x + 1)
            ELSE <<rs[x]>> \o Keep(x + 1)
    IN Keep(1)

\* C4: when dedupe completes, the output holds, in input order, exactly the
\* first occurrence of every parseable input record up to object key order;
\* no two output records are equal up to key order, the output is no longer
\* than the input, and dedupe of the output file is the output file.
C4_DedupeFirstOccurrences ==
    DDDone =>
        /\ Records(fout) = FirstOccurrences(Records(inp))
        /\ \A x, y \in DOMAIN fout :
              Unordered(Records(fout)[x]) = Unordered(Records(fout)[y]) => x = y
        /\ Len(fout) <= Len(inp)
        /\ Len(fout) = Len(Records(fout))
        /\ DedupeRun(fout) = fout
        /\ report = [in |-> Len(NonBlank(inp)), out |-> Len(fout)]

\* a completed run that dropped a record written with its keys in another
\* order and skipped a line that is not JSON
C4_Witness ==
    /\ DDDone
    /\ Len(fout) = 1
    /\ \E x, y, z \in DOMAIN inp :
          /\ x < z
          /\ inp[y].kind = "bad"
          /\ inp[x].kind = "json" /\ inp[z].kind = "json"
          /\ loads(inp[x].v) # loads(inp[z].v)
          /\ fout[1] = JsonLine(dumps(loads(inp[x].v)))

-----------------------------------------------------------------------------
(* retrain_trigger.py.  inp is r, the parsed results file.  Rates and      *)
(* thresholds are hundredths.                                              *)

\* d.get(k, default)
Get(d, k, default) == IF HasKey(d, k) THEN Lookup(d, k) ELSE default

\* bool(v) of Python, for the values of the model
Truthy(v) ==
    CASE v.t = "null" -> FALSE
      [] v.t = "false" -> FALSE
      [] v.t = "true" -> TRUE
      [] v.t = "str" -> v.s # ""
      [] v.t = "list" -> v.e # <<>>
      [] v.t = "obj" -> v.f # <<>>
      [] v.t = "num" -> IF "v" \in DOMAIN v THEN v.v # 0 ELSE v.s \notin {"0", "0.0"}

\* float(r.get("passRate", 0))
pass_rateMutant(r) == Get(r, "passRate", JNumV(100)).v
pass_rate(r) == Get(r, "passRate", JNumV(0)).v
\* float(r.get("repairedRate", 0))
repair_rate(r) == Get(r, "repairedRate", JNumV(0)).v
\* r.get("taxonomy") or {}
taxonomy(r) == LET t == Get(r, "taxonomy", None) IN IF Truthy(t) THEN t ELSE JObj(<<>>)
\* int(taxonomy.get("SCHEMA", 0))
schema_bad(r) == Get(taxonomy(r), "SCHEMA", JNumV(0)).v
\* int(taxonomy.get("JSON_PARSE", 0))
parse_bad(r) == Get(taxonomy(r), "JSON_PARSE", JNumV(0)).v

\* the list need of violated thresholds; f"passRate<{args.min_pass}" is the
\* pair of the text and the threshold
NeedMutant(r, a) ==
    (IF pass_rate(r) <= a.min_pass THEN <<<<"passRate<", a.min_pass>>>> ELSE <<>>)
    \o (IF repair_rate(r) > a.max_repair THEN <<<<"repairedRate>", a.max_repair>>>> ELSE <<>>)
    \o (IF schema_bad(r) > 0 THEN <<<<"SCHEMA>0">>>> ELSE <<>>)
    \o (IF parse_bad(r) > 0 THEN <<<<"JSON_PARSE>0">>>> ELSE <<>>)
Need(r, a) ==
    (IF pass_rate(r) < a.min_pass THEN <<<<"passRate<", a.min_pass>>>> ELSE <<>>)
    \o (IF repair_rate(r) > a.max_repair THEN <<<<"repairedRate>", a.max_repair>>>> ELSE <<>>)
    \o (IF schema_bad(r) > 0 THEN <<<<"SCHEMA>0">>>> ELSE <<>>)
    \o (IF parse_bad(r) > 0 THEN <<<<"JSON_PARSE>0">>>> ELSE <<>>)

SystemText == "You MUST output valid JSON matching the report schema and nothing else."
UserPrefix == "Produce a schema-valid report for test: "
FixText == "Fix it. Return JSON only. Include all required keys, even if citations is empty."
\* json.dumps of the fallback report
FallbackText ==
    "{\"title\": \"Fallback report\", \"summary\": \"Schema-safe fallback because the previous attempt failed.\", \"bullets\": [\"Add targeted training examples for this failure\", \"Run evals after training\", \"Keep tool grounding strict\"], \"actions\": [\"Harvest failures into JSONL\", \"Fine-tune with QLoRA SFT\", \"Re-run edge-case suites\"], \"cautions\": [\"Do not output non-JSON\", \"Do not fabricate facts\"], \"citations\": []}"

Msg(role, content) == JObj(<<<<"role", JStr(role)>>, <<"content", JStr(content)>>>>)

\* str(d.get('error') or '')
ErrorText(d) == LET err == Get(d, "error", None) IN IF Truthy(err) THEN Str(err) ELSE ""

\* the row harvested for detail entry d at time ts
Row(d, ts) ==
    JObj(<<
      <<"messages", JList(<<
          Msg("system", SystemText),
          Msg("user", UserPrefix \o Str(Get(d, "name", None))),
          Msg("assistant", ErrorText(d)),
          Msg("user", FixText),
          Msg("assistant", FallbackText)>>)>>,
      <<"meta", JObj(<<
          <<"suite", Get(d, "suite", None)>>,
          <<"name", Get(d, "name", None)>>,
          <<"status", Get(d, "status", None)>>,
          <<"ts", JStr(ts)>>>>)>>
    >>)

\* d.get("ok") is True
OkIsTrue(d) == Get(d, "ok", None) = JTrue

\* datetime.utcnow().isoformat()+"Z" for a clock reading in microseconds
\* after 2026-01-01T00:00:00 (isoformat leaves out a zero microsecond part)
TsText(t) ==
    "2026-01-01T00:00:00"
    \o (CASE t = 0 -> "" [] t = 1 -> ".000001" [] t = 2 -> ".000002" [] t = 3 -> ".000003"
           [] t = 4 -> ".000004" [] t = 5 -> ".000005" [] t = 6 -> ".000006"
           [] t = 7 -> ".000007" [] t = 8 -> ".000008" [] t = 9 -> ".000009")
    \o "Z"

\* the rows written for the list details, in order; tss holds the clock
\* readings of the loop, one for each row it builds
RECURSIVE HarvestRows(_, _)
HarvestRows(details, tss) ==
    IF details = <<>> THEN <<>>
    ELSE IF OkIsTrue(Head(details)) THEN HarvestRows(Tail(details), tss)
    ELSE <<JsonLine(dumps(Row(Head(details), TsText(Head(tss)))))>>
         \o HarvestRows(Tail(details), Tail(tss))

\* the detail entries the loop builds a row for
Harvested(details) == SelectSeq(details, LAMBDA d : ~OkIsTrue(d))

\* r.get("details", [])
Details(r) == Get(r, "details", JList(<<>>)).e

\* os.path.dirname(args.out)
dirname(path) == path[1]

\* open(args.out, "a") and the writes of the loop: the file after them
AppendMode(old, rows) == old \o rows

\* detail entries: passing, failing with and without an error text, and one
\* with neither ok nor suite
DetailEntries ==
    {JObj(<<<<"ok", JTrue>>, <<"name", JStr("t1")>>, <<"suite", JStr("s")>>,
            <<"status", JStr("pass")>>>>),
     JObj(<<<<"ok", JFalse>>, <<"name", JStr("t2")>>, <<"suite", JStr("s")>>,
            <<"status", JStr("fail")>>, <<"error", JStr("boom")>>>>),
     JObj(<<<<"name", JStr("t3")>>, <<"error", JNull>>>>)}

DetailLists == UNION {[1..len -> DetailEntries] : len \in 0..MaxDetails}

\* the members a summary may hold for each of its fields (<<>>: absent)
PassOpts == {<<>>} \cup {<<<<"passRate", JNumV(v)>>>> : v \in {80, 95, 99}}
RepairOpts == {<<>>} \cup {<<<<"repairedRate", JNumV(v)>>>> : v \in {2, 10, 11}}
TaxOpts ==
    {<<>>} \cup
    {<<<<"taxonomy", t>>>> :
        t \in {JNull, JObj(<<>>),
               JObj(<<<<"SCHEMA", JNumV(1)>>>>),
               JObj(<<<<"JSON_PARSE", JNumV(2)>>>>),
               JObj(<<<<"SCHEMA", JNumV(0)>>, <<"JSON_PARSE", JNumV(0)>>>>),
               JObj(<<<<"TOOL", JNumV(3)>>>>)}}
DetailOpts(ds) == {<<>>} \cup {<<<<"details", JList(d)>>>> : d \in ds}

\* the summaries of a policy run: every combination of fields, short details
PolicySummaries ==
    {JObj(p \o q \o t \o d) :
        p \in PassOpts, q \in RepairOpts, t \in TaxOpts,
        d \in DetailOpts({dl \in DetailLists : Len(dl) <= 1})}

\* the summaries of a harvest run: every details list, two pass rates
HarvestSummaries ==
    {JObj(p \o d) :
        p \in {<<<<"passRate", JNumV(v)>>>> : v \in {80, 99}},
        d \in DetailOpts(DetailLists)}

\* --out as <<directory, file name>>; the second has no directory part
HarvestPaths == {<<"training/data", "auto_failures.jsonl">>, <<"", "auto_failures.jsonl">>}

\* the readings of datetime.utcnow() that the model tells apart, in order
Clock == 0..9

\* the reading a line of the harvest file was stamped with
ReadingOf(line) ==
    CHOOSE t \in Clock : Lookup(Lookup(line.v, "meta"), "ts") = JStr(TsText(t))

\* the latest reading in the harvest file, -1 for an empty file: a run
\* starts after every row the file holds was written
LastReading(f) == IF f = <<>> THEN -1 ELSE ReadingOf(f[Len(f)])

\* the readings of the k calls of a run on a file whose latest reading is
\* last: the first is later than last, each next one is the same
\* microsecond or later
ClockReadings(k, last) ==
    {tss \in [1..k -> Clock] :
        /\ k > 0 => tss[1] = last + 1
        /\ \A x \in 1..(k - 1) : tss[x + 1] \in {tss[x], tss[x] + 1}}

\* the arguments of a run against the harvest file at path
RetrainArgs(path, minpass) ==
    {[min_pass |-> mp, max_repair |-> 10, out |-> o] :
        mp \in minpass, o \in {NoArg, path}}

InitRetrain ==
    /\ tool = "retrain"
    /\ \E path \in HarvestPaths :
          /\ fo = [path |-> path, lines |-> <<>>]
          /\ args \in RetrainArgs(path, {95, 0})
    /\ inp \in PolicySummaries
    /\ need = <<>>
    /\ ProcStart
    /\ SplitIdle /\ DedupeIdle /\ ValidateIdle /\ StatsIdle

InitHarvest ==
    /\ tool = "retrain"
    /\ \E path \in HarvestPaths :
          /\ fo = [path |-> path, lines |-> <<>>]
          /\ args \in RetrainArgs(path, {95})
    /\ inp \in HarvestSummaries
    /\ need = <<>>
    /\ ProcStart
    /\ SplitIdle /\ DedupeIdle /\ ValidateIdle /\ StatsIdle

\* lines 16-36: read the summary, evaluate the thresholds, exit 0 or go on
RTDecide ==
    /\ tool = "retrain" /\ pc = "start"
    /\ need' = Need(inp, args)
    /\ IF need' = <<>>
       THEN pc' = "done" /\ exit' = "0"
       ELSE pc' = "triggered" /\ exit' = exit
    /\ UNCHANGED <<tool, args, inp, i, report, n_in, fo>>
    /\ UNCHANGED <<splitVars, dedupeVars, validateVars, statsVars>>

\* lines 39-65: with --out, make the directory, append one row per detail
\* entry whose ok is not True, print the count
RTHarvest ==
    /\ tool = "retrain" /\ pc = "triggered"
    /\ IF args.out = NoArg
       THEN pc' = "suggest" /\ UNCHANGED <<fo, report, exit>>
       ELSE IF dirname(args.out) = ""
       THEN pc' = "done" /\ exit' = "crash" /\ UNCHANGED <<fo, report>>
       ELSE \E tss \in ClockReadings(Len(Harvested(Details(inp))), LastReading(fo.lines)) :
              LET rows == HarvestRows(Details(inp), tss)
              IN /\ fo' = [fo EXCEPT !.lines = AppendMode(@, rows)]
                 /\ report' = [harvested_failures |-> Len(rows)]
                 /\ pc' = "suggest"
                 /\ exit' = exit
    /\ UNCHANGED <<tool, args, inp, i, n_in, need>>
    /\ UNCHANGED <<splitVars, dedupeVars, validateVars, statsVars>>

\* lines 67-73
RTExit ==
    /\ tool = "retrain" /\ pc = "suggest"
    /\ pc' = "done" /\ exit' = "1"
    /\ UNCHANGED <<tool, args, inp, i, report, n_in>>
    /\ UNCHANGED <<splitVars, dedupeVars, validateVars, statsVars, retrainVars>>

\* the next run of the script against the same harvest file
RTStartRun ==
    /\ tool = "retrain" /\ pc = "done"
    /\ Len(fo.lines) < MaxHarvest
    /\ args' \in RetrainArgs(fo.path, {95})
    /\ inp' \in HarvestSummaries
    /\ need' = <<>>
    /\ pc' = "start" /\ exit' = "running" /\ report' = <<>>
    /\ UNCHANGED <<tool, i, n_in, fo>>
    /\ UNCHANGED <<splitVars, dedupeVars, validateVars, statsVars>>

NextRetrain ==
    \/ RTDecide
    \/ RTHarvest
    \/ RTExit

NextHarvest ==
    \/ RTDecide
    \/ RTHarvest
    \/ RTExit
    \/ RTStartRun

SpecRetrain == InitRetrain /\ [][NextRetrain]_vars
SpecHarvest == InitHarvest /\ [][NextHarvest]_vars

-----------------------------------------------------------------------------
(* Claims on the retrain decision (checked under SpecRetrain).             *)

RTDecided == tool = "retrain" /\ pc # "start"

\* the count of category k in the summary's taxonomy, 0 where there is none
TaxCount(r, k) ==
    IF HasKey(r, "taxonomy") /\ HasKey(Lookup(r, "taxonomy"), k)
    THEN Lookup(Lookup(r, "taxonomy"), k).v
    ELSE 0

\* the four conditions on a summary that holds both rates, as the reasons
\* they are reported with, in the order of the policy
Violated(r, a) ==
    (IF Lookup(r, "passRate").v < a.min_pass THEN <<<<"passRate<", a.min_pass>>>> ELSE <<>>)
    \o (IF Lookup(r, "repairedRate").v > a.max_repair
        THEN <<<<"repairedRate>", a.max_repair>>>> ELSE <<>>)
    \o (IF TaxCount(r, "SCHEMA") > 0 THEN <<<<"SCHEMA>0">>>> ELSE <<>>)
    \o (IF TaxCount(r, "JSON_PARSE") > 0 THEN <<<<"JSON_PARSE>0">>>> ELSE <<>>)

\* C5: for a summary with both rates, the run triggers iff passRate <
\* minPass, repairedRate > maxRepair, taxonomy[SCHEMA] > 0 or
\* taxonomy[JSON_PARSE] > 0; the reasons are exactly the violated
\* conditions; no trigger ends the process with status 0 and a trigger with
\* another status.
C5_TriggerIffViolated ==
    (RTDecided /\ HasKey(inp, "passRate") /\ HasKey(inp, "repairedRate")) =>
        /\ need = Violated(inp, args)
        /\ (need = <<>>) <=>
              ~ \/ Lookup(inp, "passRate").v < args.min_pass
                \/ Lookup(inp, "repairedRate").v > args.max_repair
                \/ TaxCount(inp, "SCHEMA") > 0
                \/ TaxCount(inp, "JSON_PARSE") > 0
        /\ need = <<>> => pc = "done" /\ exit = "0"
        /\ need # <<>> => exit # "0"
        /\ (need # <<>> /\ pc = "done") => exit \in {"1", "crash"}

\* the run on {passRate: 0.80, repairedRate: 0.02, taxonomy: {}} with 0.95
\* and 0.10 has ended, triggered by passRate<0.95 alone
C5_Witness ==
    /\ tool = "retrain" /\ pc = "done" /\ exit = "1"
    /\ HasKey(inp, "passRate") /\ Lookup(inp, "passRate") = JNumV(80)
    /\ HasKey(inp, "repairedRate") /\ Lookup(inp, "repairedRate") = JNumV(2)
    /\ HasKey(inp, "taxonomy") /\ Lookup(inp, "taxonomy") = JObj(<<>>)
    /\ args.min_pass = 95 /\ args.max_repair = 10
    /\ need = <<<<"passRate<", 95>>>>

\* every field the summary holds satisfies its threshold
PresentFieldsPass(r, a) ==
    /\ HasKey(r, "passRate") => Lookup(r, "passRate").v >= a.min_pass
    /\ HasKey(r, "repairedRate") => Lookup(r, "repairedRate").v <= a.max_repair
    /\ TaxCount(r, "SCHEMA") <= 0
    /\ TaxCount(r, "JSON_PARSE") <= 0

\* C6 as stated: a missing field counts as passing, so a summary in which
\* every present field satisfies its threshold does not trigger, whichever
\* fields are missing.
C6_MissingIsPassing ==
    (RTDecided /\ PresentFieldsPass(inp, args)) => need = <<>>

\* the summary with 0 written for each rate it lacks
Fill0(r) ==
    JObj(r.f
         \o (IF HasKey(r, "passRate") THEN <<>> ELSE <<<<"passRate", JNumV(0)>>>>)
         \o (IF HasKey(r, "repairedRate") THEN <<>> ELSE <<<<"repairedRate", JNumV(0)>>>>))

\* C6 amended: a missing field is read as 0 and compared like a present 0.
\* A missing repairedRate (for maxRepair >= 0), taxonomy or category adds
\* no reason; a missing passRate adds the reason passRate<minPass and
\* triggers whenever minPass > 0.
C6_MissingReadAsZero ==
    RTDecided =>
        /\ need = Violated(Fill0(inp), args)
        /\ (PresentFieldsPass(inp, args) /\ (HasKey(inp, "passRate") \/ args.min_pass <= 0))
              => need = <<>>
        /\ (~HasKey(inp, "passRate") /\ args.min_pass > 0)
              => Head(need) = <<"passRate<", args.min_pass>>

\* a run on a summary without passRate whose other fields pass has ended
\* triggered, by passRate<0.95 alone
C6_Witness ==
    /\ tool = "retrain" /\ pc = "done" /\ exit = "1"
    /\ ~HasKey(inp, "passRate")
    /\ PresentFieldsPass(inp, args)
    /\ need = <<<<"passRate<", 95>>>>

-----------------------------------------------------------------------------
(* Claims on the harvest file (checked under SpecHarvest).                 *)

\* the detail entries whose ok is not true
NotOk(details) == SelectSeq(details, LAMBDA d : Get(d, "ok", None) # JTrue)

\* a line is a record of five turns system, user, assistant, user, assistant
FiveTurns(line) ==
    /\ line.kind = "json"
    /\ LET msgs == Lookup(line.v, "messages").e
       IN [x \in DOMAIN msgs |-> Lookup(msgs[x], "role")]
            = <<JStr("system"), JStr("user"), JStr("assistant"), JStr("user"), JStr("assistant")>>

\* C7: a triggered run with a harvest destination appends exactly one
\* five-turn line per detail entry whose ok is not true and leaves the
\* lines the file held in place; no other step changes the harvest file.
C7_HarvestAppendOnly ==
    [][/\ (tool = "retrain" /\ pc = "triggered" /\ args.out # NoArg) =>
            /\ Len(fo'.lines) = Len(fo.lines) + Len(NotOk(Details(inp)))
            /\ SubSeq(fo'.lines, 1, Len(fo.lines)) = fo.lines
            /\ \A x \in (Len(fo.lines) + 1)..Len(fo'.lines) : FiveTurns(fo'.lines[x])
       /\ ~(tool = "retrain" /\ pc = "triggered" /\ args.out # NoArg) => fo' = fo
      ]_vars

-----------------------------------------------------------------------------
(* validate_jsonl.py                                                       *)

\* the verdict of a validator: (True, None), (False, reason), or the
\* exception it raises
Ok == [r |-> "ok", reason |-> ""]
Rejected(reason) == [r |-> "bad", reason |-> reason]
Raised(exc) == [r |-> "raise", reason |-> exc]

roles == {"system", "user", "assistant", "tool"}

\* the strings of the model that s.strip() leaves empty
WhitespaceOnly == {"", " ", "  "}

\* str(i) for the message indexes of the model
IndexText(x) == CASE x = 0 -> "0" [] x = 1 -> "1" [] x = 2 -> "2" [] x = 3 -> "3" [] x = 4 -> "4"

\* a value that set membership cannot hash: m.get("role") not in roles
\* raises TypeError for it
Unhashable(v) == v.t \in {"list", "obj"}

\* the for loop of validate_chat from message idx on
RECURSIVE CheckMessages(_, _)
CheckMessages(ms, idx) ==
    IF ms = <<>> THEN Ok
    ELSE LET m == Head(ms) IN
         IF m.t # "obj" THEN Rejected("message[" \o IndexText(idx) \o "] not object")
         ELSE LET role == Get(m, "role", None)
                  content == Get(m, "content", None)
              IN IF Unhashable(role) THEN Raised("TypeError")
                 ELSE IF ~(role.t = "str" /\ role.s \in roles)
                 THEN Rejected("message[" \o IndexText(idx) \o "] invalid role")
                 ELSE IF content.t # "str" \/ content.s \in WhitespaceOnly
                 THEN Rejected("message[" \o IndexText(idx) \o "] missing content")
                 ELSE CheckMessages(Tail(ms), idx + 1)

\* any(m.get("role")==role for m in msgs), after the loop has passed
HasRole(ms, role) == \E x \in DOMAIN ms : Get(ms[x], "role", None) = JStr(role)

validate_chat(obj) ==
    IF obj.t # "obj" THEN Raised("AttributeError")
    ELSE LET msgs == Get(obj, "messages", None) IN
         IF msgs.t # "list" \/ Len(msgs.e) < 2 THEN Rejected("missing/invalid messages")
         ELSE LET res == CheckMessages(msgs.e, 0) IN
              IF res # Ok THEN res
              ELSE IF ~(HasRole(msgs.e, "user") /\ HasRole(msgs.e, "assistant"))
              THEN Rejected("need at least one user and one assistant message")
              ELSE Ok

\* the for loop of validate_instruction over the keys ks; k not in obj
\* raises TypeError on a number or a literal and is true of a list that does
\* not hold the string
RECURSIVE CheckFields(_, _)
CheckFields(obj, ks) ==
    IF ks = <<>> THEN Ok
    ELSE IF obj.t \in {"num", "null", "true", "false"} THEN Raised("TypeError")
    ELSE IF obj.t = "list" /\ JStr(Head(ks)) \in Range(obj.e) THEN Raised("TypeError")
    ELSE IF obj.t = "list" \/ ~HasKey(obj, Head(ks)) \/ Lookup(obj, Head(ks)).t # "str"
    THEN Rejected("missing/invalid " \o Head(ks))
    ELSE CheckFields(obj, Tail(ks))

validate_instruction(obj) ==
    LET res == CheckFields(obj, <<"instruction", "input", "output">>) IN
    IF res # Ok THEN res
    ELSE IF Lookup(obj, "output").s \in WhitespaceOnly THEN Rejected("empty output")
    ELSE Ok

\* validator = validate_chat if args.mode=="chat" else validate_instruction
validator(obj, a) == IF a.mode = "chat" THEN validate_chat(obj) ELSE validate_instruction(obj)

\* lines 62-66: the validator, then the required meta path on a row that
\* passed
Verdict(obj, a) ==
    LET res == validator(obj, a) IN
    IF res = Ok /\ a.require_meta # NoArg
    THEN LET v == get_path(obj, a.require_meta) IN
         IF v = None \/ (v.t = "str" /\ v.s \in WhitespaceOnly)
         THEN Rejected("missing required field: meta.userId")
         ELSE Ok
    ELSE res

Chat(ms, meta) == JsonLine(JObj(<<<<"messages", JList(ms)>>>> \o meta))
MetaUser(u) == <<<<"meta", JObj(<<<<"userId", u>>>>)>>>>
MsgV(role, content) == JObj(<<<<"role", role>>, <<"content", content>>>>)
UserHi == Msg("user", "hi")
AssistantOk == Msg("assistant", "ok")

\* lines that files of every length are built from
ValidateCore ==
    {Blank, BadLine,
     JsonLine(JList(<<>>)),
     Chat(<<UserHi, AssistantOk>>, MetaUser(JStr("u1"))),
     Chat(<<UserHi, AssistantOk>>, <<>>),
     Chat(<<Msg("user", ""), AssistantOk>>, MetaUser(JStr("u1"))),
     Chat(<<UserHi, Msg("user", "there")>>, MetaUser(JStr("u1"))),
     Chat(<<MsgV(JList(<<>>), JStr("hi")), AssistantOk>>, MetaUser(JStr("u1")))}

\* lines that are validated alone, as one-line files
ValidateMore ==
    {JsonLine(JNum("1")),
     JsonLine(JObj(<<>>)),
     JsonLine(JObj(<<<<"messages", JStr("hi")>>>>)),
     Chat(<<UserHi>>, <<>>),
     Chat(<<JStr("hi"), AssistantOk>>, <<>>),
     Chat(<<Msg("system", "be brief"), UserHi, Msg("tool", "42"), AssistantOk>>, <<>>),
     Chat(<<Msg("bot", "hi"), UserHi, AssistantOk>>, <<>>),
     Chat(<<MsgV(JNull, JStr("hi")), AssistantOk>>, <<>>),
     Chat(<<MsgV(JObj(<<>>), JStr("hi")), AssistantOk>>, <<>>),
     Chat(<<UserHi, MsgV(JStr("assistant"), JNull)>>, <<>>),
     Chat(<<UserHi, MsgV(JStr("assistant"), JList(<<>>))>>, <<>>),
     Chat(<<UserHi, JObj(<<<<"role", JStr("assistant")>>>>)>>, <<>>),
     Chat(<<UserHi, Msg("assistant", " ")>>, <<>>),
     Chat(<<AssistantOk, Msg("assistant", "ok")>>, <<>>),
     Chat(<<UserHi, AssistantOk>>, MetaUser(JStr(" "))),
     Chat(<<UserHi, AssistantOk>>, MetaUser(JNull)),
     Chat(<<UserHi, AssistantOk>>, MetaUser(JNum("7"))),
     JsonLine(JObj(<<<<"instruction", JStr("do")>>, <<"input", JStr("")>>,
                    <<"output", JStr("done")>>>>)),
     JsonLine(JObj(<<<<"instruction", JStr("do")>>, <<"input", JStr("")>>,
                    <<"output", JStr(" ")>>>>)),
     JsonLine(JObj(<<<<"instruction", JStr("do")>>, <<"output", JStr("done")>>>>)),
     JsonLine(JList(<<JStr("instruction")>>))}

ValidateArgs ==
    {[mode |-> m, require_meta |-> rm, out_bad |-> ob] :
        m \in {"chat", "instruction"},
        rm \in {NoArg, <<"meta", "userId">>},
        ob \in {NoArg, <<"rejects.jsonl">>}}

InitValidate ==
    /\ tool = "validate"
    /\ args \in ValidateArgs
    /\ inp \in FilesOver(ValidateCore) \cup {<<ln>> : ln \in ValidateMore}
    /\ ProcStart
    /\ SplitIdle /\ DedupeIdle /\ ValidateIdle /\ StatsIdle /\ RetrainIdle

\* bad_out.write(...) when --out_bad is given
WriteBad(out, a, row) == IF a.out_bad = NoArg THEN out ELSE Append(out, row)

\* lines 52-73: one iteration of the loop on st = [n_in, n_ok, n_bad,
\* bad_out, exit]; an exception of the validator leaves main() and ends the
\* process
VConsume(st, line, a) ==
    IF line.kind = "blank" THEN st
    ELSE IF line.kind = "bad"
    THEN [st EXCEPT !.n_in = @ + 1, !.n_bad = @ + 1,
                    !.bad_out = WriteBad(@, a, [reason |-> "invalid_json", raw |-> line])]
    ELSE LET obj == loads(line.v)
             res == Verdict(obj, a)
         IN IF res.r = "raise" THEN [st EXCEPT !.n_in = @ + 1, !.exit = "crash"]
            ELSE IF res.r = "ok" THEN [st EXCEPT !.n_in = @ + 1, !.n_ok = @ + 1]
            ELSE [st EXCEPT !.n_in = @ + 1, !.n_bad = @ + 1,
                            !.bad_out = WriteBad(@, a, [reason |-> res.reason, row |-> obj])]

VReadLine ==
    /\ tool = "validate" /\ pc = "start" /\ i < Len(inp)
    /\ LET st == VConsume([n_in |-> n_in, n_ok |-> n_ok, n_bad |-> n_bad,
                           bad_out |-> bad_out, exit |-> exit], inp[i + 1], args)
       IN /\ n_in' = st.n_in /\ n_ok' = st.n_ok /\ n_bad' = st.n_bad
          /\ bad_out' = st.bad_out /\ exit' = st.exit
          /\ IF st.exit = "crash" THEN pc' = "done" /\ i' = i ELSE pc' = pc /\ i' = i + 1
    /\ UNCHANGED <<tool, args, inp, report>>
    /\ UNCHANGED <<splitVars, dedupeVars, statsVars, retrainVars>>

\* lines 75-76
VFinish ==
    /\ tool = "validate" /\ pc = "start" /\ i = Len(inp)
    /\ report' = [in |-> n_in, ok |-> n_ok, bad |-> n_bad]
    /\ pc' = "done" /\ exit' = "0"
    /\ UNCHANGED <<tool, args, inp, i, n_in>>
    /\ UNCHANGED <<splitVars, dedupeVars, validateVars, statsVars, retrainVars>>

NextValidate ==
    \/ VReadLine
    \/ VFinish

SpecValidate == InitValidate /\ [][NextValidate]_vars

-----------------------------------------------------------------------------
(* stats_report.py                                                         *)

\* msg_text_len(m)
msg_text_len(m) == LET c == Get(m, "content", JStr("")) IN IF c.t = "str" THEN Len(c.s) ELSE 0

RECURSIVE Sum(_)
Sum(xs) == IF xs = <<>> THEN 0 ELSE Head(xs) + Sum(Tail(xs))

\* the length of a row in chat mode, or the exception: obj.get raises on a
\* value that is no dict, the generator on messages that cannot be iterated
ChatLength(obj) ==
    IF obj.t # "obj" THEN Raised("AttributeError")
    ELSE LET got == Get(obj, "messages", None)
             msgs == IF Truthy(got) THEN got ELSE JList(<<>>)
         IN IF msgs.t \in {"num", "true"} THEN Raised("TypeError")
            ELSE IF msgs.t # "list" THEN [r |-> "ok", len |-> 0]
            ELSE [r |-> "ok",
                  len |-> Sum([x \in DOMAIN msgs.e |->
                                 IF msgs.e[x].t = "obj" THEN msg_text_len(msgs.e[x]) ELSE 0])]

\* the length of a row in instruction mode: sum(len(str(obj.get(k,""))))
InstructionLength(obj) ==
    IF obj.t # "obj" THEN Raised("AttributeError")
    ELSE [r |-> "ok",
          len |-> Sum([x \in 1..3 |->
                         Len(Str(Get(obj, <<"instruction", "input", "output">>[x], JStr(""))))])]

\* label_counts[key]=label_counts.get(key,0)+1
CountLabel(lc, key) ==
    IF \E x \in DOMAIN lc : lc[x].k = key
    THEN [x \in DOMAIN lc |-> IF lc[x].k = key THEN [lc[x] EXCEPT !.c = @ + 1] ELSE lc[x]]
    ELSE Append(lc, [k |-> key, c |-> 1])

\* one iteration of the loop of stats on st = [n, lengths, n_missing_label,
\* label_counts, exit]
STConsume(st, line, a) ==
    IF line.kind # "json" THEN st
    ELSE LET obj == loads(line.v)
             res == IF a.mode = "chat" THEN ChatLength(obj) ELSE InstructionLength(obj)
         IN IF res.r = "raise" THEN [st EXCEPT !.n = @ + 1, !.exit = "crash"]
            ELSE LET st1 == [st EXCEPT !.n = @ + 1, !.lengths = Append(@, res.len)] IN
                 IF a.label_path = NoArg THEN st1
                 ELSE LET lab == get_path(obj, a.label_path) IN
                      IF lab = None THEN [st1 EXCEPT !.n_missing_label = @ + 1]
                      ELSE [st1 EXCEPT !.label_counts = CountLabel(@, Str(lab))]

\* sorted(xs)
RECURSIVE Sorted(_)
Insert(x, xs) ==
    LET k == Cardinality({y \in DOMAIN xs : xs[y] <= x})
    IN SubSeq(xs, 1, k) \o <<x>> \o SubSeq(xs, k + 1, Len(xs))
Sorted(xs) == IF xs = <<>> THEN <<>> ELSE Insert(Head(xs), Sorted(Tail(xs)))

\* statistics.median(xs) as the fraction <<numerator, denominator>>
Median(xs) ==
    LET ys == Sorted(xs)
        m == Len(xs)
    IN IF m % 2 = 1 THEN <<ys[(m + 1) \div 2], 1>> ELSE <<ys[m \div 2] + ys[m \div 2 + 1], 2>>

\* sorted(label_counts.items(), key=lambda kv: kv[1], reverse=True): by
\* count, largest first, equal counts in dict order
RECURSIVE ByCountDown(_, _)
ByCountDown(lc, c) ==
    IF c = 0 THEN <<>> ELSE SelectSeq(lc, LAMBDA x : x.c = c) \o ByCountDown(lc, c - 1)

\* the report of lines 51-65 (fewer than 10 lengths: p90 is the maximum);
\* mean and median are fractions
Report(st, a) ==
    [count |-> st.n,
     length_chars |->
        IF st.lengths = <<>>
        THEN [min |-> 0, p50 |-> <<0, 1>>, p90 |-> 0, max |-> 0, mean |-> <<0, 1>>]
        ELSE LET ys == Sorted(st.lengths) IN
             [min |-> ys[1], p50 |-> Median(st.lengths), p90 |-> ys[Len(ys)],
              max |-> ys[Len(ys)], mean |-> <<Sum(st.lengths), Len(st.lengths)>>],
     labels |->
        IF a.label_path = NoArg THEN None
        ELSE [label_path |-> a.label_path, missing |-> st.n_missing_label,
              counts |-> ByCountDown(st.label_counts, st.n)]]

StatsLines ==
    {Blank, BadLine,
     JsonLine(JList(<<>>)),
     Chat(<<UserHi, AssistantOk>>, MetaUser(JStr("u1"))),
     Chat(<<UserHi, Msg("assistant", "okay then")>>, MetaUser(JStr("u2"))),
     Chat(<<UserHi, MsgV(JStr("assistant"), JNull)>>, <<>>),
     JsonLine(JObj(<<<<"instruction", JStr("do")>>, <<"input", JStr("")>>,
                    <<"output", JStr("done")>>>>))}

InitStats ==
    /\ tool = "stats"
    /\ args \in {[mode |-> m, label_path |-> lp] :
                    m \in {"chat", "instruction"}, lp \in {NoArg, <<"meta", "userId">>}}
    /\ inp \in FilesOver(StatsLines)
    /\ ProcStart
    /\ SplitIdle /\ DedupeIdle /\ ValidateIdle /\ StatsIdle /\ RetrainIdle

STReadLine ==
    /\ tool = "stats" /\ pc = "start" /\ i < Len(inp)
    /\ LET st == STConsume([n |-> n, lengths |-> lengths, n_missing_label |-> n_missing_label,
                            label_counts |-> label_counts, exit |-> exit], inp[i + 1], args)
       IN /\ n' = st.n /\ lengths' = st.lengths /\ n_missing_label' = st.n_missing_label
          /\ label_counts' = st.label_counts /\ exit' = st.exit
          /\ IF st.exit = "crash" THEN pc' = "done" /\ i' = i ELSE pc' = pc /\ i' = i + 1
    /\ UNCHANGED <<tool, args, inp, report, n_in>>
    /\ UNCHANGED <<groups, keys, train_keys, val_keys, test_keys, lines, files>>
    /\ UNCHANGED <<dedupeVars, validateVars, retrainVars>>

STFinish ==
    /\ tool = "stats" /\ pc = "start" /\ i = Len(inp)
    /\ report' = Report([n |-> n, lengths |-> lengths, n_missing_label |-> n_missing_label,
                         label_counts |-> label_counts], args)
    /\ pc' = "done" /\ exit' = "0"
    /\ UNCHANGED <<tool, args, inp, i, n_in>>
    /\ UNCHANGED <<splitVars, dedupeVars, validateVars, statsVars, retrainVars>>

NextStats ==
    \/ STReadLine
    \/ STFinish

SpecStats == InitStats /\ [][NextStats]_vars

-----------------------------------------------------------------------------
(* The four stages that read record files, side by side: a behaviour is a  *)
(* run of one of them.                                                     *)

InitStages == InitDedupe \/ InitValidate \/ InitSplit \/ InitStats

NextStages == NextDedupe \/ NextValidate \/ NextSplit \/ NextStats

SpecStages == InitStages /\ [][NextStages]_vars

\* the loops of validate and stats over a whole file, up to an exception
RECURSIVE VReadAll(_, _, _)
VReadAll(st, f, a) ==
    IF f = <<>> \/ st.exit = "crash" THEN st ELSE VReadAll(VConsume(st, Head(f), a), Tail(f), a)
RECURSIVE STReadAll(_, _, _)
STReadAll(st, f, a) ==
    IF f = <<>> \/ st.exit = "crash" THEN st ELSE STReadAll(STConsume(st, Head(f), a), Tail(f), a)

\* the counters a stage reports at completion, as a function of its input
\* file and arguments
StageReport(t, f, a) ==
    CASE t = "dedupe" ->
           LET st == DDReadAll([seen |-> {}, fout |-> <<>>, n_in |-> 0, n_out |-> 0], f)
           IN [in |-> st.n_in, out |-> st.n_out]
      [] t = "validate" ->
           LET st == VReadAll([n_in |-> 0, n_ok |-> 0, n_bad |-> 0, bad_out |-> <<>>,
                               exit |-> "running"], f, a)
           IN [in |-> st.n_in, ok |-> st.n_ok, bad |-> st.n_bad]
      [] t = "group_split" ->
           LET st == GSReadAll([n |-> 0, groups |-> <<>>], f, a.group_key)
               run == GSRun(f, a)
           IN [rows |-> st.n, groups |-> Len(st.groups),
               train_rows |-> Len(flatten(st.groups, run.train)),
               val_rows |-> Len(flatten(st.groups, run.val)),
               test_rows |-> Len(flatten(st.groups, run.test))]
      [] t = "stats" ->
           Report(STReadAll([n |-> 0, lengths |-> <<>>, n_missing_label |-> 0,
                             label_counts |-> <<>>, exit |-> "running"], f, a), a)

\* the file without its line x
Remove(f, x) == SubSeq(f, 1, x - 1) \o SubSeq(f, x + 1, Len(f))

-----------------------------------------------------------------------------
(* Claims on the validator (checked under SpecValidate) and on the counts  *)
(* of the stages (checked under SpecStages).                               *)

\* C8: no line aborts the validator: it never ends in an exception, and
\* when it has ended it has reported in, ok and bad with every non-blank
\* line counted in in and in = ok + bad.
C8_ValidatorNeverFatal ==
    tool = "validate" =>
        /\ exit # "crash"
        /\ pc = "done" =>
              /\ report = [in |-> n_in, ok |-> n_ok, bad |-> n_bad]
              /\ n_in = Len(NonBlank(inp))
              /\ n_in = n_ok + n_bad

StageDone == tool \in {"dedupe", "validate", "group_split", "stats"} /\ pc = "done" /\ exit = "0"

\* C9: when the deduplicator, the validator, the group-aware splitter or
\* the statistics engine completes on a file with a line that is not JSON,
\* its reported counts differ from those of the run on the file without
\* that line; the validator reports in = ok + bad.
C9_DroppedLinesCounted ==
    StageDone =>
        /\ \A x \in DOMAIN inp :
              inp[x].kind = "bad" => report # StageReport(tool, Remove(inp, x), args)
        /\ tool = "validate" => report.in = report.ok + report.bad

\* what the claim says of a record in conversational format
ChatRejects(obj) ==
    \/ ~HasKey(obj, "messages")
    \/ Lookup(obj, "messages").t # "list"
    \/ LET ms == Lookup(obj, "messages").e IN
         \/ Len(ms) < 2
         \/ \E x \in DOMAIN ms :
              \/ ms[x].t # "obj"
              \/ ~HasKey(ms[x], "role")
              \/ Lookup(ms[x], "role") \notin {JStr("system"), JStr("user"), JStr("assistant"), JStr("tool")}
              \/ ~HasKey(ms[x], "content")
              \/ Lookup(ms[x], "content").t # "str"
              \/ Lookup(ms[x], "content").s \in WhitespaceOnly
         \/ ~\E x \in DOMAIN ms : ms[x].t = "obj" /\ Get(ms[x], "role", None) = JStr("user")
         \/ ~\E x \in DOMAIN ms : ms[x].t = "obj" /\ Get(ms[x], "role", None) = JStr("assistant")

\* the required meta path resolves to nothing or to an empty/whitespace string
MetaRejects(obj, path) ==
    LET v == get_path(obj, path) IN v = None \/ (v.t = "str" /\ v.s \in WhitespaceOnly)

ClaimRejects(obj, a) ==
    ChatRejects(obj) \/ (a.require_meta # NoArg /\ MetaRejects(obj, a.require_meta))

\* the lines the loop has taken up, the one it raised on included
Attempted == SubSeq(inp, 1, IF exit = "crash" THEN i + 1 ELSE i)

IsRecord(ln) == ln.kind = "json" /\ ln.v.t = "obj"

\* C10: in chat mode the rows written to the reject file are, in order,
\* the lines that are not JSON and the records that the format rules (or,
\* for a record that passes them, the required meta path) reject; every
\* other record is counted ok.  Content of only whitespace counts as empty.
C10_ChatValidation ==
    (tool = "validate" /\ args.mode = "chat" /\ args.out_bad # NoArg) =>
        /\ [x \in DOMAIN bad_out |->
              IF "raw" \in DOMAIN bad_out[x] THEN bad_out[x].raw ELSE JsonLine(bad_out[x].row)]
            = [x \in DOMAIN
                   SelectSeq(Attempted, LAMBDA ln :
                       ln.kind = "bad" \/ (IsRecord(ln) /\ ClaimRejects(loads(ln.v), args))) |->
                 LET ln == SelectSeq(Attempted, LAMBDA l :
                               l.kind = "bad" \/ (IsRecord(l) /\ ClaimRejects(loads(l.v), args)))[x]
                 IN IF ln.kind = "bad" THEN ln ELSE JsonLine(loads(ln.v))]
        /\ n_ok = Len(SelectSeq(Attempted, LAMBDA ln :
                       IsRecord(ln) /\ ~ClaimRejects(loads(ln.v), args)))

-----------------------------------------------------------------------------
(* The harvest file re-entering the pipeline at the validator (checked     *)
(* under SpecHarvest).                                                     *)

\* validate_jsonl.py --mode chat, without --require_meta and --out_bad
ChatModeArgs == [mode |-> "chat", require_meta |-> NoArg, out_bad |-> NoArg]

\* the validator's counters after its loop over the file f in chat mode
Revalidate(f) ==
    VReadAll([n_in |-> 0, n_ok |-> 0, n_bad |-> 0, bad_out |-> <<>>, exit |-> "running"],
             f, ChatModeArgs)

\* C11: every row of the harvest file is accepted by the validator in chat
\* mode: its run over the file raises nothing, counts every row ok and
\* none bad.
C11_FeedbackLoopCloses ==
    tool = "retrain" =>
        /\ Revalidate(fo.lines).exit # "crash"
        /\ Revalidate(fo.lines).n_bad = 0
        /\ Revalidate(fo.lines).n_ok = Len(fo.lines)

====
